---- MODULE Spec2Model ----
(***************************************************************************)
(* Scalar base case of the Dory polynomial commitment                      *)
(* (jolt-core/src/poly/commitment/dory/scalar.rs).                          *)
(*                                                                         *)
(* The pairing groups G1, G2, Gt all have prime order R, so each element   *)
(* is represented by its discrete logarithm in Zr with respect to a fixed  *)
(* generator G of G1, H of G2 and e(G, H) of Gt:  x stands for x*G, x*H or  *)
(* x*e(G,H).  Group addition is addition mod R, scalar multiplication is   *)
(* multiplication mod R and the pairing e(x*G, y*H) = (x*y)*e(G,H) is      *)
(* multiplication mod R (bilinear, non-degenerate).                        *)
(***************************************************************************)
EXTENDS Integers, Sequences, FiniteSets

VARIABLES
    g1v,        \* PublicParams::g1v()
    g2v,        \* PublicParams::g2v()
    pp,         \* SingleParam { g1, g2, c }
    poly,       \* the MultilinearPolynomial handed to Witness::new
    witness,    \* the Witness, once built
    com,        \* the result of commit, once called
    proof,      \* the ScalarProof, once built
    replaced,   \* which field of the honest commitment or proof was replaced
    last,       \* the blinder and the result of the latest call of verify
    accepted,   \* the blinders on which verify returned Ok(true) for (proof, com)
    transcript  \* two Fiat-Shamir transcripts, as logs of absorbed Gt elements

vars == <<g1v, g2v, pp, poly, witness, com, proof, replaced, last, accepted, transcript>>

----------------------------------------------------------------------------
(* Bounds of the model *)

MaxGen == 2         \* singleton generators g1, g2 range over 0..MaxGen
MaxLen == 2         \* generator vectors have length 1..MaxLen
MaxAppends == 2     \* each transcript absorbs at most MaxAppends commitments

----------------------------------------------------------------------------
(* The pairing: Zr, G1, G2, Gt *)

R == 5              \* the prime order r of G1, G2, Gt and of the field Zr

Zr == 0..(R - 1)
G1 == Zr
G2 == Zr
Gt == Zr

Generators == 0..MaxGen
VecGenerators == {1, 2}

G1Add(p, q) == (p + q) % R
G2Add(p, q) == (p + q) % R
GtAdd(s, t) == (s + t) % R
G1Mul(p, s) == (p * s) % R
G2Mul(q, s) == (q * s) % R
GtMul(t, s) == (t * s) % R

\* vec_operations::e, the pairing map
e(p, q) == (p * q) % R

\* Field::inverse: an Option, here the empty set for None and {x} for Some(x)
inverse(d) == {x \in Zr : (x * d) % R = 1}

RECURSIVE Sum(_)
\* Iterator::sum over group elements
Sum(ts) == IF Len(ts) = 0 THEN 0 ELSE GtAdd(Head(ts), Sum(Tail(ts)))

Min(a, b) == IF a <= b THEN a ELSE b

----------------------------------------------------------------------------
(* Results *)

None == [tag |-> "None"]
Panic == [tag |-> "Panic"]
Ok(v) == [tag |-> "Ok", val |-> v]
Err(x) == [tag |-> "Err", err |-> x]
Some(v) == [tag |-> "Some", val |-> v]

IsOk(r) == r.tag = "Ok"
IsErr(r, x) == r.tag = "Err" /\ r.err = x
IsSome(r) == r.tag = "Some"

----------------------------------------------------------------------------
(* The operations of scalar.rs *)

RECURSIVE MultiPairing(_, _)
MultiPairing(xs, ys) ==
    IF Len(xs) = 0 THEN 0
    ELSE GtAdd(e(Head(xs), Head(ys)), MultiPairing(Tail(xs), Tail(ys)))

\* InnerProd::inner_prod
inner_prod(xs, ys) ==
    IF Len(xs) # Len(ys) THEN Err("LengthMismatch") ELSE Ok(MultiPairing(xs, ys))

\* Witness::new with the G2 generators copied instead of scaled
Witness_new_unscaled_u2(pg1v, pg2v, p) ==
    IF p.form # "LargeScalars" THEN Panic
    ELSE LET evals == p.evals
             v1 == [i \in 1..Min(Len(pg1v), Len(evals)) |-> G1Mul(pg1v[i], evals[i])]
             v2 == [i \in 1..Min(Len(pg2v), Len(evals)) |-> pg2v[i]]
         IN  Some([u1 |-> v1, u2 |-> v2])

\* Witness::new
Witness_new(pg1v, pg2v, p) ==
    IF p.form # "LargeScalars" THEN Panic
    ELSE LET evals == p.evals
             v1 == [i \in 1..Min(Len(pg1v), Len(evals)) |-> G1Mul(pg1v[i], evals[i])]
             v2 == [i \in 1..Min(Len(pg2v), Len(evals)) |-> G2Mul(pg2v[i], evals[i])]
         IN  Some([u1 |-> v1, u2 |-> v2])

\* commit with D2 paired against g2v instead of g1v
commit_d2_uses_g2v(w, pg1v, pg2v) ==
    LET d1 == inner_prod(w.u1, pg2v) IN
    IF ~IsOk(d1) THEN d1 ELSE
    LET d2 == inner_prod(pg2v, w.u2) IN
    IF ~IsOk(d2) THEN d2 ELSE
    LET c == inner_prod(w.u1, w.u2) IN
    IF ~IsOk(c) THEN c ELSE
    Ok([d1 |-> d1.val, d2 |-> d2.val, c |-> c.val])

RECURSIVE ZipPairing(_, _)
ZipPairing(xs, ys) ==
    IF Len(xs) = 0 \/ Len(ys) = 0 THEN 0
    ELSE GtAdd(e(Head(xs), Head(ys)), ZipPairing(Tail(xs), Tail(ys)))

\* commit with D1 and D2 summed over the zipped prefix, only C length-checked
commit_truncating(w, pg1v, pg2v) ==
    LET c == inner_prod(w.u1, w.u2) IN
    IF ~IsOk(c) THEN c ELSE
    Ok([d1 |-> ZipPairing(w.u1, pg2v), d2 |-> ZipPairing(pg1v, w.u2), c |-> c.val])

\* commit
commit(w, pg1v, pg2v) ==
    LET d1 == inner_prod(w.u1, pg2v) IN
    IF ~IsOk(d1) THEN d1 ELSE
    LET d2 == inner_prod(pg1v, w.u2) IN
    IF ~IsOk(d2) THEN d2 ELSE
    LET c == inner_prod(w.u1, w.u2) IN
    IF ~IsOk(c) THEN c ELSE
    Ok([d1 |-> d1.val, d2 |-> d2.val, c |-> c.val])

\* ScalarProof::new
ScalarProof_new(w) ==
    IF Len(w.u1) = 0 \/ Len(w.u2) = 0 THEN Panic
    ELSE Some([e1 |-> w.u1[1], e2 |-> w.u2[1]])

\* verify with d used where d_inv belongs
verify_reuses_d(self, p, cm, d) ==
    LET d_inv == inverse(d) IN
    IF d_inv = {} THEN Err("CouldntInvertD") ELSE
    LET g1 == Sum(<<self.e1, G1Mul(p.g1, d)>>)
        g2 == Sum(<<self.e2, G2Mul(p.g2, d)>>)
        left_eq == e(g1, g2)
        right_eq == Sum(<<p.c, cm.c, GtMul(cm.d2, d), GtMul(cm.d1, d)>>)
    IN  Ok(left_eq = right_eq)

\* verify with d1 added to the right-hand side without the factor d_inv
verify_unscaled_d1(self, p, cm, d) ==
    LET d_inv == inverse(d) IN
    IF d_inv = {} THEN Err("CouldntInvertD") ELSE
    LET di == CHOOSE x \in d_inv : TRUE
        g1 == Sum(<<self.e1, G1Mul(p.g1, d)>>)
        g2 == Sum(<<self.e2, G2Mul(p.g2, di)>>)
        left_eq == e(g1, g2)
        right_eq == Sum(<<p.c, cm.c, GtMul(cm.d2, d), cm.d1>>)
    IN  Ok(left_eq = right_eq)

\* verify with the D1 terms left out of both sides
verify_ignores_d1(self, p, cm, d) ==
    LET d_inv == inverse(d) IN
    IF d_inv = {} THEN Err("CouldntInvertD") ELSE
    LET di == CHOOSE x \in d_inv : TRUE
        g1 == Sum(<<self.e1, G1Mul(p.g1, d)>>)
        left_eq == Sum(<<e(g1, self.e2), p.c>>)
        right_eq == Sum(<<p.c, cm.c, GtMul(cm.d2, d)>>)
    IN  Ok(left_eq = right_eq)

\* verify with the blinder left out of the G2 combination
verify_unblinded_g2(self, p, cm, d) ==
    LET d_inv == inverse(d) IN
    IF d_inv = {} THEN Err("CouldntInvertD") ELSE
    LET di == CHOOSE x \in d_inv : TRUE
        g1 == Sum(<<self.e1, G1Mul(p.g1, d)>>)
        g2 == Sum(<<self.e2, p.g2>>)
        left_eq == e(g1, g2)
        right_eq == Sum(<<p.c, cm.c, GtMul(cm.d2, d), GtMul(cm.d1, di)>>)
    IN  Ok(left_eq = right_eq)

\* verify with the inverse of zero defaulted instead of reported
verify_default_inverse(self, p, cm, d) ==
    LET d_inv == inverse(d)
        di == IF d_inv = {} THEN 0 ELSE CHOOSE x \in d_inv : TRUE
        g1 == Sum(<<self.e1, G1Mul(p.g1, d)>>)
        g2 == Sum(<<self.e2, G2Mul(p.g2, di)>>)
        left_eq == e(g1, g2)
        right_eq == Sum(<<p.c, cm.c, GtMul(cm.d2, d), GtMul(cm.d1, di)>>)
    IN  Ok(left_eq = right_eq)

\* ScalarProof::verify, with the sampled blinder d made explicit
verify(self, p, cm, d) ==
    LET d_inv == inverse(d) IN
    IF d_inv = {} THEN Err("CouldntInvertD") ELSE
    LET di == CHOOSE x \in d_inv : TRUE
        g1 == Sum(<<self.e1, G1Mul(p.g1, d)>>)
        g2 == Sum(<<self.e2, G2Mul(p.g2, di)>>)
        left_eq == e(g1, g2)
        right_eq == Sum(<<p.c, cm.c, GtMul(cm.d2, d), GtMul(cm.d1, di)>>)
    IN  Ok(left_eq = right_eq)

\* append_gt
append_gt(t, x) == Append(t, x)

\* append_to_transcript with the fields absorbed in declaration order of the literal
append_to_transcript_d1_first(self, t) ==
    append_gt(append_gt(append_gt(t, self.d1), self.d2), self.c)

\* Commitment::append_to_transcript
append_to_transcript(self, t) ==
    append_gt(append_gt(append_gt(t, self.c), self.d1), self.d2)

----------------------------------------------------------------------------
(* Input domains *)

\* SingleParam for the generators g1, g2, with the cached c = e(g1, g2)
SingleParam(a, b) == [g1 |-> a, g2 |-> b, c |-> e(a, b)]

PolyForms == {"LargeScalars", "U8Scalars"}
NoCall == [tag |-> "None"]
Commitments == [c : Gt, d1 : Gt, d2 : Gt]
Proofs == [e1 : G1, e2 : G2]
Vectors(S, lo, hi) == UNION {[1..n -> S] : n \in lo..hi}
EmptyTranscripts == [i \in 1..2 |-> <<>>]

----------------------------------------------------------------------------
(* Initial states *)

\* Base case: g1v = [g1], g2v = [g2], a polynomial with one evaluation
Init ==
    /\ \E a \in Generators, b \in Generators :
          /\ g1v = <<a>>
          /\ g2v = <<b>>
          /\ pp = SingleParam(a, b)
    /\ \E f \in PolyForms, a \in Zr : poly = Some([form |-> f, evals |-> <<a>>])
    /\ witness = None
    /\ com = None
    /\ proof = None
    /\ replaced = "none"
    /\ last = NoCall
    /\ accepted = {}
    /\ transcript = EmptyTranscripts

\* The verifier's side: a proof and a commitment as received
InitVerifier ==
    /\ \E a \in Generators, b \in Generators :
          /\ g1v = <<a>>
          /\ g2v = <<b>>
          /\ pp = SingleParam(a, b)
    /\ poly = None
    /\ witness = None
    /\ \E cm \in Commitments : com = Ok(cm)
    /\ \E pf \in Proofs : proof = Some(pf)
    /\ replaced = "received"
    /\ last = NoCall
    /\ accepted = {}
    /\ transcript = EmptyTranscripts

\* Generator vectors of length n; either a dense polynomial of any length up
\* to n + 1, or a witness assembled by the caller from its public fields
InitVec ==
    /\ \E n \in 1..MaxLen :
          /\ g1v \in [1..n -> VecGenerators]
          /\ g2v \in [1..n -> VecGenerators]
          /\ \/ /\ \E ev \in Vectors(Zr, 0, n + 1) :
                      poly = Some([form |-> "LargeScalars", evals |-> ev])
                /\ witness = None
             \/ /\ poly = None
                /\ \E x \in Vectors(VecGenerators, 0, MaxLen), y \in Vectors(VecGenerators, 0, MaxLen) :
                      witness = Some([u1 |-> x, u2 |-> y])
    /\ pp = SingleParam(g1v[1], g2v[1])
    /\ com = None
    /\ proof = None
    /\ replaced = "none"
    /\ last = NoCall
    /\ accepted = {}
    /\ transcript = EmptyTranscripts

\* A commitment to be absorbed by the transcripts
InitTranscript ==
    /\ g1v = <<1>>
    /\ g2v = <<1>>
    /\ pp = SingleParam(1, 1)
    /\ poly = None
    /\ witness = None
    /\ \E cm \in Commitments : com = Ok(cm)
    /\ proof = None
    /\ replaced = "received"
    /\ last = NoCall
    /\ accepted = {}
    /\ transcript = EmptyTranscripts

----------------------------------------------------------------------------
(* Actions *)

NewWitness ==
    /\ IsSome(poly)
    /\ witness = None
    /\ witness' = Witness_new(g1v, g2v, poly.val)
    /\ UNCHANGED <<g1v, g2v, pp, poly, com, proof, replaced, last, accepted, transcript>>

Commit ==
    /\ IsSome(witness)
    /\ com = None
    /\ com' = commit(witness.val, g1v, g2v)
    /\ UNCHANGED <<g1v, g2v, pp, poly, witness, proof, replaced, last, accepted, transcript>>

NewProof ==
    /\ IsSome(witness)
    /\ proof = None
    /\ proof' = ScalarProof_new(witness.val)
    /\ UNCHANGED <<g1v, g2v, pp, poly, witness, com, replaced, last, accepted, transcript>>

\* One component of the honest commitment is replaced by another Gt element
ReplaceCommitment ==
    /\ replaced = "none"
    /\ IsOk(com)
    /\ IsSome(proof)
    /\ \E f \in {"c", "d1", "d2"}, x \in Gt :
          /\ x # com.val[f]
          /\ com' = Ok([com.val EXCEPT ![f] = x])
          /\ replaced' = f
    /\ last' = NoCall
    /\ accepted' = {}
    /\ UNCHANGED <<g1v, g2v, pp, poly, witness, proof, transcript>>

\* One element of the honest proof is replaced by another group element
ReplaceProof ==
    /\ replaced = "none"
    /\ IsOk(com)
    /\ IsSome(proof)
    /\ \E f \in {"e1", "e2"}, x \in Zr :
          /\ x # proof.val[f]
          /\ proof' = Some([proof.val EXCEPT ![f] = x])
          /\ replaced' = f
    /\ last' = NoCall
    /\ accepted' = {}
    /\ UNCHANGED <<g1v, g2v, pp, poly, witness, com, transcript>>

\* One call of verify; d is the value drawn from thread_rng
Verify ==
    /\ IsOk(com)
    /\ IsSome(proof)
    /\ \E d \in Zr :
          LET r == verify(proof.val, pp, com.val, d) IN
          /\ last' = [tag |-> "Call", d |-> d, result |-> r]
          /\ accepted' = IF IsOk(r) /\ r.val THEN accepted \cup {d} ELSE accepted
    /\ UNCHANGED <<g1v, g2v, pp, poly, witness, com, proof, replaced, transcript>>

AppendToTranscript ==
    /\ IsOk(com)
    /\ \E i \in 1..2 :
          /\ Len(transcript[i]) < 3 * MaxAppends
          /\ transcript' = [transcript EXCEPT ![i] = append_to_transcript(com.val, transcript[i])]
    /\ UNCHANGED <<g1v, g2v, pp, poly, witness, com, proof, replaced, last, accepted>>

----------------------------------------------------------------------------
(* Specifications *)

Next == NewWitness \/ Commit \/ NewProof \/ ReplaceCommitment \/ ReplaceProof \/ Verify
Spec == Init /\ [][Next]_vars

NextVerifier == Verify
SpecVerifier == InitVerifier /\ [][NextVerifier]_vars

NextVec == NewWitness \/ Commit \/ NewProof
SpecVec == InitVec /\ [][NextVec]_vars

NextTranscript == AppendToTranscript
SpecTranscript == InitTranscript /\ [][NextTranscript]_vars

----------------------------------------------------------------------------
(* Properties of the verifier *)

HonestPair == replaced = "none" /\ IsOk(com) /\ IsSome(proof)
Called == last.tag = "Call"
NonIdentityParams == pp.g1 # 0 /\ pp.g2 # 0

\* The three relations the verification equation stands for
Relations(pf, p, cm) ==
    /\ cm.c = e(pf.e1, pf.e2)
    /\ cm.d1 = e(pf.e1, p.g2)
    /\ cm.d2 = e(p.g1, pf.e2)

\* C1: at the base case (g1v = [g1], g2v = [g2], c = e(g1, g2)), the honest
\* commitment and the honest proof of Witness::new(params, [a]) are accepted:
\* verify returns Ok(true) on every nonzero blinder d.
HonestCompleteness ==
    (HonestPair /\ Called /\ last.d # 0) =>
        (IsOk(last.result) /\ last.result.val = TRUE)

HonestAccepted ==
    /\ HonestPair /\ Called /\ last.d # 0
    /\ poly.val.evals[1] > 1 /\ NonIdentityParams
    /\ IsOk(last.result) /\ last.result.val = TRUE

\* C2: for any proof and any commitment, if one of C = e(e1, e2),
\* D1 = e(e1, g2), D2 = e(g1, e2) fails, verify returns Ok(true) on at most
\* two of the nonzero blinders d.
SoundnessOfEquation ==
    (IsOk(com) /\ IsSome(proof) /\ ~Relations(proof.val, pp, com.val)) =>
        Cardinality(accepted) <= 2

TwoBlindersAccepted ==
    /\ IsOk(com) /\ IsSome(proof) /\ ~Relations(proof.val, pp, com.val)
    /\ Cardinality(accepted) = 2
    /\ Called /\ IsOk(last.result) /\ last.result.val = FALSE

\* C3: with exactly one of C, D1, D2 of the honest commitment replaced by a
\* different Gt element and the proof kept honest, verify returns Ok(false)
\* on every nonzero blinder d.
BindingUnderPerturbation ==
    (replaced \in {"c", "d1", "d2"} /\ Called /\ last.d # 0) =>
        (IsOk(last.result) /\ last.result.val = FALSE)

PerturbedRejected ==
    /\ replaced = "d1" /\ Called /\ last.d # 0
    /\ IsOk(last.result) /\ last.result.val = FALSE

\* C4: with exactly one of e1, e2 of the honest proof replaced by a different
\* group element, the commitment kept and g1, g2 not the identity, verify
\* returns Ok(true) on at most one nonzero blinder d.
ProofTampering ==
    (replaced \in {"e1", "e2"} /\ NonIdentityParams) =>
        Cardinality(accepted \ {0}) <= 1

TamperedAcceptedOnce ==
    /\ replaced = "e1" /\ NonIdentityParams
    /\ Cardinality(accepted) = 1
    /\ Called /\ last.d # 0 /\ IsOk(last.result) /\ last.result.val = FALSE

\* C6: verify returns Err(CouldntInvertD) exactly when the sampled blinder d
\* is zero, and Ok(b) with b a boolean whenever d is nonzero.
ZeroBlinderIsError ==
    Called =>
        /\ last.d = 0 => IsErr(last.result, "CouldntInvertD")
        /\ last.d # 0 => (IsOk(last.result) /\ last.result.val \in BOOLEAN)

ZeroBlinderDrawn ==
    Called /\ last.d = 0 /\ IsErr(last.result, "CouldntInvertD")

----------------------------------------------------------------------------
(* Properties of the witness builder, commit and the proof constructor *)

RECURSIVE PairingSum(_, _, _)
\* <x, y> = e(x[1], y[1]) + ... + e(x[k], y[k])
PairingSum(xs, ys, k) ==
    IF k = 0 THEN 0 ELSE (PairingSum(xs, ys, k - 1) + xs[k] * ys[k]) % R

Committed == IsSome(witness) /\ com.tag # "None"

\* C5: for a witness (u1, u2) and generator vectors (g1v, g2v) all of the same
\* length n, commit returns Ok with D1 = <u1, g2v>, D2 = <g1v, u2> and
\* C = <u1, u2>; for n = 1, C = e(u1[0], u2[0]), D1 = e(u1[0], g2) and
\* D2 = e(g1, u2[0]).
CommitmentDefinition ==
    (/\ Committed
     /\ Len(witness.val.u1) = Len(g1v)
     /\ Len(witness.val.u2) = Len(g1v)
     /\ Len(g2v) = Len(g1v)) =>
        LET n == Len(g1v)
            u1 == witness.val.u1
            u2 == witness.val.u2
        IN  /\ IsOk(com)
            /\ com.val.d1 = PairingSum(u1, g2v, n)
            /\ com.val.d2 = PairingSum(g1v, u2, n)
            /\ com.val.c = PairingSum(u1, u2, n)
            /\ n = 1 => /\ com.val.c = e(u1[1], u2[1])
                        /\ com.val.d1 = e(u1[1], pp.g2)
                        /\ com.val.d2 = e(pp.g1, u2[1])

CommittedVector ==
    /\ Committed /\ IsOk(com)
    /\ Len(g1v) = 2 /\ g1v[2] # g2v[2] /\ g1v[1] # g2v[1]
    /\ witness.val.u1 # witness.val.u2
    /\ com.val.d1 # com.val.d2 /\ com.val.c # com.val.d1

\* C7: commit returns Err(LengthMismatch), and no commitment, whenever
\* |u1| # |g2v| or |g1v| # |u2| or |u1| # |u2|, and Ok(commitment) only when
\* the three inner products pair vectors of equal length.
CommitRejectsUnequalLengths ==
    Committed =>
        LET mismatch == \/ Len(witness.val.u1) # Len(g2v)
                        \/ Len(g1v) # Len(witness.val.u2)
                        \/ Len(witness.val.u1) # Len(witness.val.u2)
        IN  /\ mismatch => (IsErr(com, "LengthMismatch") /\ DOMAIN com = {"tag", "err"})
            /\ IsOk(com) => ~mismatch
            /\ com.tag \in {"Ok", "Err"}

CommitRejected ==
    /\ Committed /\ IsErr(com, "LengthMismatch")
    /\ Len(witness.val.u1) = Len(witness.val.u2)
    /\ Len(witness.val.u1) = 1 /\ Len(g1v) = 2

\* C9: ScalarProof::new returns (e1, e2) = (u1[0], u2[0]) for a witness with
\* |u1| = |u2| = 1 and panics for a witness whose u1 or u2 is longer than 1.
ProofOnlyForReducedWitness ==
    (IsSome(witness) /\ proof.tag # "None") =>
        LET u1 == witness.val.u1
            u2 == witness.val.u2
        IN  /\ (Len(u1) = 1 /\ Len(u2) = 1) =>
                  (IsSome(proof) /\ proof.val.e1 = u1[1] /\ proof.val.e2 = u2[1])
            /\ (Len(u1) > 1 \/ Len(u2) > 1) => proof.tag = "Panic"

\* C10: for |g1v| = |g2v| = n and a dense evaluation vector a of length m,
\* Witness::new returns u1, u2 of length min(n, m) with u1[i] = a[i]*g1v[i]
\* and u2[i] = a[i]*g2v[i]; commit on that witness returns
\* Err(LengthMismatch) exactly when m < n, and for m >= n the commitment of
\* the first n evaluations of a.
WitnessBuilder ==
    (IsSome(poly) /\ poly.val.form = "LargeScalars" /\ witness.tag # "None") =>
        LET a == poly.val.evals
            n == Len(g1v)
            m == Len(a)
            k == IF n <= m THEN n ELSE m
            firstN == Some([form |-> "LargeScalars", evals |-> SubSeq(a, 1, n)])
        IN  /\ IsSome(witness)
            /\ Len(witness.val.u1) = k
            /\ Len(witness.val.u2) = k
            /\ \A i \in 1..k : /\ witness.val.u1[i] = (a[i] * g1v[i]) % R
                               /\ witness.val.u2[i] = (a[i] * g2v[i]) % R
            /\ com.tag # "None" =>
                  /\ IsErr(com, "LengthMismatch") <=> m < n
                  /\ m >= n =>
                        /\ IsOk(com)
                        /\ com.val = commit(Witness_new(g1v, g2v, firstN.val).val, g1v, g2v).val

ExtraEvaluationsIgnored ==
    /\ IsSome(poly) /\ IsSome(witness) /\ IsOk(com)
    /\ Len(g1v) = 2 /\ Len(poly.val.evals) = 3
    /\ poly.val.evals[3] # 0 /\ poly.val.evals[1] > 1
    /\ g2v[1] # g2v[2]

----------------------------------------------------------------------------
(* Properties of the transcript adapter *)

CommitmentField(cm, k) ==
    IF k % 3 = 1 THEN cm.c ELSE IF k % 3 = 2 THEN cm.d1 ELSE cm.d2

\* C8: append_to_transcript absorbs exactly three Gt elements, C then D1 then
\* D2, and nothing else: each transcript is the sequence C, D1, D2 repeated
\* once per call, so two transcripts fed the commitment equally often agree.
TranscriptOrder ==
    /\ \A i \in 1..2 :
          /\ Len(transcript[i]) % 3 = 0
          /\ \A k \in 1..Len(transcript[i]) :
                transcript[i][k] = CommitmentField(com.val, k)
    /\ Len(transcript[1]) = Len(transcript[2]) => transcript[1] = transcript[2]

TranscriptsFed ==
    /\ Len(transcript[1]) = 6 /\ Len(transcript[2]) = 6
    /\ com.val.c # com.val.d1 /\ com.val.d1 # com.val.d2 /\ com.val.c # com.val.d2

====
